---------------------------- MODULE Spec2Model ----------------------------
(***************************************************************************)
(* Model of verif_joueurs_laliga_SAFE_MATCH.py: the roster provider client *)
(* (fetch_or_load_players with its on-disk cache), the name normalizer     *)
(* (remove_accents, extract_first_name), the reconciliation loop           *)
(* (verifier_effectifs) and the /analyze request handler.                  *)
(*                                                                         *)
(* A string is a sequence of characters; a character is a one-element name *)
(* ("A", "l", " ", "A_acute", ...).  The empty string is << >>.            *)
(* A similarity score is kept in hundredths of a percent point (8500 is    *)
(* 85.00), which is the precision of round(score, 2).                      *)
(***************************************************************************)
EXTENDS Integers, Sequences, FiniteSets, TLC

VARIABLES
    \* ---- roster provider client (fetch_or_load_players) ----
    cache,        \* the files cache/club_<id>.json, by club id
    fpc,          \* position of the call: idle, check, loop, returned, raised
    fclub,        \* club_id of the call in progress
    attempt,      \* loop variable of "for attempt in range(MAX_RETRIES)"
    requests,     \* number of requests.get calls made by the call
    fsleeps,      \* durations of the time.sleep calls of the call, tenths of a second
    fresult,      \* value returned by the call
    entry,        \* the cache file as the call found it (history)
    flog,         \* the outcome of the latest attempt of the call (history)
    \* ---- /analyze and verifier_effectifs ----
    request,      \* the uploaded file
    pc,           \* start, loop, fetching, rows, done
    i,            \* index into CLUB_SLUG_TO_ID of the club being processed
    subset,       \* player_display_name column of the rows of that club
    tm_players,   \* provider names of that club
    k,            \* index of the next row of subset
    matched_tm_names,
    matched_sheet_names,
    results,      \* the list of result rows
    pauses,       \* durations of the time.sleep calls of verifier_effectifs
    response,     \* the HTTP response of /analyze
    last,         \* scores, best and score of the row processed last (history)
    visits        \* per club whose fetch returned: its rows and its provider names (history)

fetchVars == <<cache, fpc, fclub, attempt, requests, fsleeps, fresult, entry, flog>>
analyzeVars == <<request, pc, i, subset, tm_players, k, matched_tm_names,
                 matched_sheet_names, results, pauses, response, last, visits>>
vars == <<fetchVars, analyzeVars>>

(***************************************************************************)
(* Program constants.                                                      *)
(***************************************************************************)
MAX_CACHE_AGE_HOURS == 24
MAX_RETRIES == 3
PAUSE_AFTER == 10
PAUSE_SECONDS == 30

CLUB_SLUG_TO_ID ==
    << [slug |-> "athletic-club-bilbao",             id |-> 621],
       [slug |-> "atletico-madrid-madrid",           id |-> 13],
       [slug |-> "barcelona-barcelona",              id |-> 131],
       [slug |-> "celta-de-vigo-vigo",               id |-> 940],
       [slug |-> "deportivo-alaves-vitoria-gasteiz", id |-> 1108],
       [slug |-> "elche-elche",                      id |-> 1531],
       [slug |-> "espanyol-barcelona",               id |-> 670],
       [slug |-> "getafe-getafe-madrid",             id |-> 3709],
       [slug |-> "girona-girona",                    id |-> 12321],
       [slug |-> "levante-valencia",                 id |-> 3368],
       [slug |-> "mallorca-palma-de-mallorca",       id |-> 237],
       [slug |-> "osasuna-pamplona",                 id |-> 331],
       [slug |-> "rayo-vallecano-madrid",            id |-> 367],
       [slug |-> "real-betis-sevilla",               id |-> 150],
       [slug |-> "real-madrid-madrid",               id |-> 418],
       [slug |-> "real-oviedo-oviedo",               id |-> 2497],
       [slug |-> "real-sociedad-san-sebastian",      id |-> 681],
       [slug |-> "sevilla-sevilla",                  id |-> 368],
       [slug |-> "valencia-valencia",                id |-> 1049],
       [slug |-> "villarreal-villarreal",            id |-> 1050] >>

ClubIds == {CLUB_SLUG_TO_ID[n].id : n \in DOMAIN CLUB_SLUG_TO_ID}

(***************************************************************************)
(* Bounds of the model.                                                    *)
(***************************************************************************)
MaxRows == 2        \* rows of the uploaded table
MaxProv == 2        \* names in a provider response
MaxAge == 25        \* hours a cache file is aged in the model

(***************************************************************************)
(* Characters and strings.                                                 *)
(***************************************************************************)
Max(a, b) == IF a >= b THEN a ELSE b
Min(a, b) == IF a <= b THEN a ELSE b

\* Unicode code point of a character (Python compares strings by code point).
CodePoint(ch) ==
    CASE ch = " " -> 32
      [] ch = "A" -> 65
      [] ch = "B" -> 66
      [] ch = "C" -> 67
      [] ch = "a" -> 97
      [] ch = "b" -> 98
      [] ch = "c" -> 99
      [] ch = "d" -> 100
      [] ch = "l" -> 108
      [] ch = "o" -> 111
      [] ch = "y" -> 121
      [] ch = "z" -> 122
      [] ch = "A_acute" -> 193
      [] ch = "a_acute" -> 225
      [] ch = "COMBINING_ACUTE" -> 769

\* unicodedata.normalize('NFD', .) of one character.
NFD(ch) ==
    CASE ch = "A_acute" -> <<"A", "COMBINING_ACUTE">>
      [] ch = "a_acute" -> <<"a", "COMBINING_ACUTE">>
      [] OTHER -> <<ch>>

\* unicodedata.category(c) == 'Mn'
IsMn(ch) == ch = "COMBINING_ACUTE"

IsSpace(ch) == ch = " "

\* str.lower() of one character.
LowerChar(ch) ==
    CASE ch = "A" -> "a"
      [] ch = "B" -> "b"
      [] ch = "C" -> "c"
      [] ch = "A_acute" -> "a_acute"
      [] OTHER -> ch

RECURSIVE Concat(_)
Concat(ss) == IF ss = <<>> THEN <<>> ELSE Head(ss) \o Concat(Tail(ss))

\* remove_accents(text)
remove_accents(text) ==
    SelectSeq(Concat([n \in DOMAIN text |-> NFD(text[n])]), LAMBDA c : ~IsMn(c))

Lower(text) == [n \in DOMAIN text |-> LowerChar(text[n])]

\* str.split() with no argument: the maximal runs of non-whitespace characters.
RECURSIVE SplitFrom(_, _, _)
SplitFrom(text, n, cur) ==
    IF n > Len(text)
    THEN IF cur = <<>> THEN <<>> ELSE <<cur>>
    ELSE IF IsSpace(text[n])
         THEN (IF cur = <<>> THEN <<>> ELSE <<cur>>) \o SplitFrom(text, n + 1, <<>>)
         ELSE SplitFrom(text, n + 1, Append(cur, text[n]))

Split(text) == SplitFrom(text, 1, <<>>)

\* str.strip(): leading and trailing whitespace removed.
RECURSIVE LStrip(_)
LStrip(text) ==
    IF text # <<>> /\ IsSpace(Head(text)) THEN LStrip(Tail(text)) ELSE text

RECURSIVE RStrip(_)
RStrip(text) ==
    IF text # <<>> /\ IsSpace(text[Len(text)])
    THEN RStrip(SubSeq(text, 1, Len(text) - 1))
    ELSE text

Strip(text) == RStrip(LStrip(text))

\* extract_first_name(full_name): [ok |-> TRUE, value |-> the first name], or
\* [ok |-> FALSE, ...] when split()[0] raises IndexError (no token at all).
extract_first_name(full_name) ==
    LET tokens == Split(Strip(full_name))
    IN  IF tokens = <<>>
        THEN [ok |-> FALSE, value |-> <<"IndexError">>]
        ELSE [ok |-> TRUE, value |-> Lower(remove_accents(tokens[1]))]

(***************************************************************************)
(* rapidfuzz.fuzz.token_sort_ratio: the tokens of each string sorted and   *)
(* joined by one space, then the normalized Indel similarity               *)
(* 100 * 2 * LCS / (len1 + len2); two empty strings score 100.  The call    *)
(* passes no processor, so the strings are compared as they are (case      *)
(* included), which is what rapidfuzz 3 does.                              *)
(***************************************************************************)
RECURSIVE StrLess(_, _)
StrLess(a, b) ==
    IF a = <<>> THEN b # <<>>
    ELSE IF b = <<>> THEN FALSE
    ELSE IF CodePoint(Head(a)) # CodePoint(Head(b))
         THEN CodePoint(Head(a)) < CodePoint(Head(b))
         ELSE StrLess(Tail(a), Tail(b))

RECURSIVE InsertToken(_, _)
InsertToken(t, sorted) ==
    IF sorted = <<>> THEN <<t>>
    ELSE IF StrLess(t, Head(sorted)) THEN <<t>> \o sorted
    ELSE <<Head(sorted)>> \o InsertToken(t, Tail(sorted))

RECURSIVE SortTokens(_)
SortTokens(tokens) ==
    IF tokens = <<>> THEN <<>>
    ELSE InsertToken(tokens[Len(tokens)], SortTokens(SubSeq(tokens, 1, Len(tokens) - 1)))

RECURSIVE JoinTokens(_)
JoinTokens(tokens) ==
    IF tokens = <<>> THEN <<>>
    ELSE IF Len(tokens) = 1 THEN tokens[1]
    ELSE tokens[1] \o <<" ">> \o JoinTokens(Tail(tokens))

RECURSIVE LcsRow(_, _, _, _)
LcsRow(prev, ch, b, cur) ==
    IF Len(cur) = Len(b) THEN cur
    ELSE LET j == Len(cur) + 1
             diag == IF j = 1 THEN 0 ELSE prev[j - 1]
             left == IF j = 1 THEN 0 ELSE cur[j - 1]
             cell == IF ch = b[j] THEN diag + 1 ELSE Max(prev[j], left)
         IN  LcsRow(prev, ch, b, Append(cur, cell))

RECURSIVE LcsRows(_, _, _, _)
LcsRows(a, b, n, prev) ==
    IF n > Len(a) THEN prev
    ELSE LcsRows(a, b, n + 1, LcsRow(prev, a[n], b, <<>>))

\* Length of the longest common subsequence.
LCS(a, b) ==
    IF Len(b) = 0 THEN 0
    ELSE LcsRows(a, b, 1, [j \in 1..Len(b) |-> 0])[Len(b)]

\* A percentage in the unit of the scores.
Pct(n) == n * 100

\* fuzz.ratio in hundredths, rounded to the nearest.
Ratio(a, b) ==
    IF Len(a) + Len(b) = 0 THEN Pct(100)
    ELSE (2 * (Pct(100) * 2 * LCS(a, b)) + (Len(a) + Len(b))) \div (2 * (Len(a) + Len(b)))

token_sort_ratio(s1, s2) ==
    Ratio(JoinTokens(SortTokens(Split(s1))), JoinTokens(SortTokens(Split(s2))))

(***************************************************************************)
(* Inputs: the names of the uploaded table and of the provider responses.  *)
(***************************************************************************)
AlBo == <<"A", "l", " ", "B", "o">>          \* "Al Bo"
BoAl == <<"B", "o", " ", "A", "l">>          \* "Bo Al"
AlCy == <<"A_acute", "l", " ", "C", "y">>    \* "Al Cy", the A with an acute accent
AlDz == <<"a", "l", " ", "d", "z">>          \* "al dz"
Blank == <<" ", " ">>                        \* two spaces
Empty == <<>>                                \* ""

UserNames == {AlBo, BoAl, AlCy, Blank}
ProvNames == {AlBo, BoAl, AlDz, Empty}

SeqsUpTo(S, n) == UNION {[1..m -> S] : m \in 0..n}

\* The "players" lists a provider response can carry.
Rosters == SeqsUpTo(ProvNames, MaxProv)
ShortRosters == SeqsUpTo(ProvNames, 1)
ServerRosters(club_id) ==
    IF club_id = CLUB_SLUG_TO_ID[PAUSE_AFTER].id THEN Rosters ELSE ShortRosters

\* The rows of the uploaded table, once line 79 has dropped the incomplete ones:
\* two clubs of the catalog, the first and the tenth; the tenth takes every
\* name and every provider list, the first a few of them.
FirstClubNames == {AlBo, Blank}
TableRows ==
    [name : FirstClubNames, slug : {CLUB_SLUG_TO_ID[1].slug}]
    \cup [name : UserNames, slug : {CLUB_SLUG_TO_ID[PAUSE_AFTER].slug}]
Tables == SeqsUpTo(TableRows, MaxRows)

(***************************************************************************)
(* The cache directory: one file per club id.                              *)
(***************************************************************************)
Absent == [exists |-> FALSE, age |-> 0, valid |-> FALSE, data |-> <<>>]
Written(data) == [exists |-> TRUE, age |-> 0, valid |-> TRUE, data |-> data]
Truncated == [exists |-> TRUE, age |-> 0, valid |-> FALSE, data |-> <<>>]

\* The test with a file of exactly MAX_CACHE_AGE_HOURS taken as fresh.
is_cache_fresh_inclusive(file) ==
    IF ~file.exists THEN FALSE ELSE file.age <= MAX_CACHE_AGE_HOURS

\* is_cache_fresh(filepath), the age of the file in hours.
is_cache_fresh(file) ==
    IF ~file.exists THEN FALSE ELSE file.age < MAX_CACHE_AGE_HOURS

(***************************************************************************)
(* fetch_or_load_players(club_id, slug)                                    *)
(***************************************************************************)
\* What one pass of the try block can meet.
\*   transport_error  requests.get raises
\*   non200           a response whose status_code is not 200
\*   bad_body         status 200, resp.json() or p["name"] raises
\*   open_error       status 200, open(cache_file, "w") raises
\*   dump_error       status 200, json.dump raises after the file was truncated
\*   ok               status 200, the list is written and returned
\* body is the list of names of a response that is returned to the caller.
Responses(club_id) ==
    [kind : {"transport_error", "non200", "bad_body", "open_error", "dump_error"},
     body : {<<>>}]
    \cup [kind : {"ok"}, body : ServerRosters(club_id)]

\* What the call saw of an attempt: no response at all, a status other than 200,
\* a status 200 followed by an exception, a status 200 followed by the return.
Outcome(kind) ==
    CASE kind = "transport_error" -> "no_response"
      [] kind = "non200" -> "non200"
      [] kind = "ok" -> "200_returned"
      [] OTHER -> "200_exception"

\* time.sleep(1.5 + attempt), in tenths of a second.
RetryPause(n) == 15 + 10 * n

\* The call: the state fetch_or_load_players starts in.
EnterFetch(club_id) ==
    /\ fpc' = "check"
    /\ fclub' = club_id
    /\ attempt' = 0
    /\ requests' = 0
    /\ fsleeps' = <<>>
    /\ fresult' = <<>>
    /\ flog' = "none"
    /\ entry' = Absent

\* Lines 58-61: the freshness test and the read of a fresh file.
FetchCheck ==
    /\ fpc = "check"
    /\ entry' = cache[fclub]
    /\ IF is_cache_fresh(cache[fclub])
       THEN IF cache[fclub].valid
            THEN fpc' = "returned" /\ fresult' = cache[fclub].data
            ELSE fpc' = "raised" /\ fresult' = <<>>
       ELSE fpc' = "loop" /\ fresult' = <<>>
    /\ UNCHANGED <<cache, fclub, attempt, requests, fsleeps, flog>>
    /\ UNCHANGED analyzeVars

\* The cache file after a pass of the try block.
FileAfter(file, resp) ==
    CASE resp.kind = "ok" -> Written(resp.body)
      [] resp.kind = "dump_error" -> Truncated
      [] OTHER -> file

\* A loop that would return on every response of status 200.
AttemptReturnsOnAny200(resp) == Outcome(resp.kind) \in {"200_returned", "200_exception"}

\* Lines 67-71: the pass of the try block that reaches "return data".
AttemptReturns(resp) == resp.kind = "ok"

\* Lines 63-74: one iteration of the retry loop.
FetchAttempt ==
    /\ fpc = "loop"
    /\ attempt < MAX_RETRIES
    /\ \E resp \in Responses(fclub) :
        /\ requests' = requests + 1
        /\ flog' = Outcome(resp.kind)
        /\ cache' = [cache EXCEPT ![fclub] = FileAfter(cache[fclub], resp)]
        /\ IF AttemptReturns(resp)
           THEN /\ fpc' = "returned"
                /\ fresult' = resp.body
                /\ UNCHANGED <<attempt, fsleeps>>
           ELSE /\ fsleeps' = Append(fsleeps, RetryPause(attempt))
                /\ attempt' = attempt + 1
                /\ UNCHANGED <<fpc, fresult>>
    /\ UNCHANGED <<fclub, entry>>
    /\ UNCHANGED analyzeVars

\* Line 75: the loop is exhausted.
FetchExhausted ==
    /\ fpc = "loop"
    /\ attempt >= MAX_RETRIES
    /\ fpc' = "returned"
    /\ fresult' = <<>>
    /\ UNCHANGED <<cache, fclub, attempt, requests, fsleeps, entry, flog>>
    /\ UNCHANGED analyzeVars

(***************************************************************************)
(* The client on its own: calls for one club id, with time passing.        *)
(***************************************************************************)
FetchIds == {CLUB_SLUG_TO_ID[1].id}

CallFetch ==
    /\ fpc = "idle"
    /\ \E club_id \in FetchIds : EnterFetch(club_id)
    /\ UNCHANGED cache
    /\ UNCHANGED analyzeVars

\* The frame of a call that has ended.
LeaveFetch ==
    /\ fpc' = "idle"
    /\ fclub' = 0
    /\ attempt' = 0
    /\ requests' = 0
    /\ fsleeps' = <<>>
    /\ fresult' = <<>>
    /\ flog' = "none"
    /\ entry' = Absent

FetchDone ==
    /\ fpc \in {"returned", "raised"}
    /\ LeaveFetch
    /\ UNCHANGED cache
    /\ UNCHANGED analyzeVars

\* One hour passes.
Tick ==
    /\ fpc = "idle"
    /\ \A c \in ClubIds : cache[c].exists => cache[c].age < MaxAge
    /\ cache' = [c \in ClubIds |->
                   IF cache[c].exists
                   THEN [cache[c] EXCEPT !.age = cache[c].age + 1]
                   ELSE cache[c]]
    /\ UNCHANGED <<fpc, fclub, attempt, requests, fsleeps, fresult, entry, flog>>
    /\ UNCHANGED analyzeVars

NoRow == [nom |-> <<>>, club |-> "", trouve |-> <<>>, similarite |-> <<>>,
          valide |-> "", type |-> ""]
NoLast == [set |-> FALSE, name |-> <<>>, scores |-> <<>>, best |-> <<>>,
           score |-> 0, row |-> NoRow]
NoResponse == [status |-> 0, error |-> "", body |-> <<>>]

InitFetchVars ==
    /\ cache = [c \in ClubIds |-> Absent]
    /\ fpc = "idle"
    /\ fclub = 0
    /\ attempt = 0
    /\ requests = 0
    /\ fsleeps = <<>>
    /\ fresult = <<>>
    /\ entry = Absent
    /\ flog = "none"

InitFetch ==
    /\ InitFetchVars
    /\ request = [file |-> FALSE, columns |-> FALSE, table |-> <<>>]
    /\ pc = "done"
    /\ i = 0
    /\ subset = <<>>
    /\ tm_players = <<>>
    /\ k = 0
    /\ matched_tm_names = {}
    /\ matched_sheet_names = {}
    /\ results = <<>>
    /\ pauses = <<>>
    /\ response = NoResponse
    /\ last = NoLast
    /\ visits = <<>>

NextFetch ==
    \/ CallFetch
    \/ FetchCheck
    \/ FetchAttempt
    \/ FetchExhausted
    \/ FetchDone
    \/ Tick

SpecFetch == InitFetch /\ [][NextFetch]_vars

(***************************************************************************)
(* verifier_effectifs(df): the matching of one row.                        *)
(***************************************************************************)
\* list.count(x)
Count(seq, x) == Cardinality({n \in DOMAIN seq : seq[n] = x})

\* [extract_first_name(p) for p in names], once every call has returned.
RECURSIVE AllFirsts(_)
AllFirsts(names) ==
    IF names = <<>> THEN <<>>
    ELSE <<extract_first_name(Head(names)).value>> \o AllFirsts(Tail(names))

\* Whether one of the calls of lines 93-94 raises.
FirstsRaise(names) == \E n \in DOMAIN names : ~extract_first_name(names[n]).ok

\* Line 105, computed once for every pair of names of the model.
RawScoreTable ==
    {<<name, candidate,
       token_sort_ratio(remove_accents(name), remove_accents(candidate))>> :
        name \in UserNames, candidate \in ProvNames}

RawScore(name, candidate) ==
    (CHOOSE t \in RawScoreTable : t[1] = name /\ t[2] = candidate)[3]

\* The condition without the count over the rows of the table.
BoostAppliesProviderOnly(name, candidate, all_transfer_firsts, all_sheet_firsts) ==
    LET player_first == extract_first_name(name).value
        candidate_first == extract_first_name(candidate).value
    IN  /\ candidate_first = player_first
        /\ Count(all_transfer_firsts, player_first) = 1

\* Lines 108-109: the condition of the boost.
BoostApplies(name, candidate, all_transfer_firsts, all_sheet_firsts) ==
    LET player_first == extract_first_name(name).value
        candidate_first == extract_first_name(candidate).value
    IN  /\ candidate_first = player_first
        /\ Count(all_transfer_firsts, player_first) = 1
        /\ Count(all_sheet_firsts, player_first) = 1

\* Lines 105-112: the score appended for one candidate.
CandidateScore(name, candidate, all_transfer_firsts, all_sheet_firsts) ==
    IF BoostApplies(name, candidate, all_transfer_firsts, all_sheet_firsts)
    THEN Min(RawScore(name, candidate) + Pct(25), Pct(100))
    ELSE RawScore(name, candidate)

\* Lines 102-112: the list scores, in the order of tm_players.
RECURSIVE Scores(_, _, _, _)
Scores(name, players, all_transfer_firsts, all_sheet_firsts) ==
    IF players = <<>> THEN <<>>
    ELSE <<[candidate |-> Head(players),
            score |-> CandidateScore(name, Head(players), all_transfer_firsts,
                                     all_sheet_firsts)]>>
         \o Scores(name, Tail(players), all_transfer_firsts, all_sheet_firsts)

\* Line 114: list.sort(key = score, reverse = True), which is stable: entries of
\* equal score keep their order.
RECURSIVE InsertLastOfEqual(_, _)
InsertLastOfEqual(e, sorted) ==
    IF sorted = <<>> THEN <<e>>
    ELSE IF Head(sorted).score >= e.score
         THEN <<Head(sorted)>> \o InsertLastOfEqual(e, Tail(sorted))
         ELSE <<e>> \o sorted

\* A sort that reverses the entries of equal score.
RECURSIVE InsertFirstOfEqual(_, _)
InsertFirstOfEqual(e, sorted) ==
    IF sorted = <<>> THEN <<e>>
    ELSE IF Head(sorted).score > e.score
         THEN <<Head(sorted)>> \o InsertFirstOfEqual(e, Tail(sorted))
         ELSE <<e>> \o sorted

RECURSIVE SortUnstable(_)
SortUnstable(scores) ==
    IF scores = <<>> THEN <<>>
    ELSE InsertFirstOfEqual(scores[Len(scores)],
                            SortUnstable(SubSeq(scores, 1, Len(scores) - 1)))

\* Line 114.
RECURSIVE SortByScoreDesc(_)
SortByScoreDesc(scores) ==
    IF scores = <<>> THEN <<>>
    ELSE InsertLastOfEqual(scores[Len(scores)],
                           SortByScoreDesc(SubSeq(scores, 1, Len(scores) - 1)))

\* Line 115.
BestOf(sorted) ==
    IF sorted # <<>> THEN sorted[1] ELSE [candidate |-> <<>>, score |-> 0]

\* The threshold taken as exclusive.
AcceptedBestStrict(best, score) == IF score > Pct(65) THEN best ELSE <<>>

\* Line 117.
AcceptedBest(best, score) == IF score >= Pct(65) THEN best ELSE <<>>

\* Line 118: "check" is the check mark, "warning" the warning sign, "cross" the
\* cross mark and, line 146, "new" the NEW sign.
StatusOf(score) ==
    IF score >= Pct(90) THEN "check"
    ELSE IF score >= Pct(65) THEN "warning"
    ELSE "cross"

\* Lines 124-128.
TypeOf(score) ==
    IF score >= Pct(90) THEN "match exact"
    ELSE IF score >= Pct(65) THEN "match partiel"
    ELSE "non trouve transfermarkt (parti du club ?)"

\* Lines 130-137; round(score, 2) is the score, kept in hundredths.
UserRow(name, slug, best, score) ==
    [nom |-> name,
     club |-> slug,
     trouve |-> best,
     similarite |-> IF best # <<>> THEN <<score>> ELSE <<>>,
     valide |-> IF best # <<>> THEN StatusOf(score) ELSE "cross",
     type |-> TypeOf(score)]

\* Lines 141-148.
NewRow(tm_name, slug) ==
    [nom |-> <<>>,
     club |-> slug,
     trouve |-> tm_name,
     similarite |-> <<>>,
     valide |-> "new",
     type |-> "nouveau joueur a ajouter a ta data sheet"]

\* Lines 139-148: the rows of the names no row of the club matched.
UnclaimedRows(players, matched, slug) ==
    LET left == SelectSeq(players, LAMBDA p : p \notin matched)
    IN  [n \in DOMAIN left |-> NewRow(left[n], slug)]

(***************************************************************************)
(* verifier_effectifs(df): the loop over the clubs.                        *)
(***************************************************************************)
\* Line 83, the column player_display_name of df[df["team_slug"] == slug].
ClubSubset(table, slug) ==
    LET rows == SelectSeq(table, LAMBDA r : r.slug = slug)
    IN  [n \in DOMAIN rows |-> rows[n].name]

\* The clubs from index n on that have a row: the others meet "continue" at once.
ClubsWithRows(table, n) ==
    {m \in n..Len(CLUB_SLUG_TO_ID) : ClubSubset(table, CLUB_SLUG_TO_ID[m].slug) # <<>>}

SetMin(S) == CHOOSE x \in S : \A y \in S : x <= y
SetMax(S) == CHOOSE x \in S : \A y \in S : x >= y

\* A loop that would take the clubs from the end of the catalog.
NextClubLast(table, n) == SetMax(ClubsWithRows(table, n))

NextClub(table, n) == SetMin(ClubsWithRows(table, n))

\* Lines 156-169: /analyze up to the call of verifier_effectifs.
Analyze ==
    /\ pc = "start"
    /\ IF ~request.file
       THEN /\ response' = [status |-> 400, error |-> "No file uploaded", body |-> <<>>]
            /\ pc' = "done"
            /\ UNCHANGED i
       ELSE IF ~request.columns
       THEN /\ response' = [status |-> 400, error |-> "Missing required columns",
                            body |-> <<>>]
            /\ pc' = "done"
            /\ UNCHANGED i
       ELSE /\ pc' = "loop"
            /\ i' = 1
            /\ UNCHANGED response
    /\ UNCHANGED <<request, subset, tm_players, k, matched_tm_names,
                   matched_sheet_names, results, pauses, last, visits>>
    /\ UNCHANGED fetchVars

\* Lines 82-87: the loop advances to the next club that has rows and calls
\* fetch_or_load_players for it.
ClubStart ==
    /\ pc = "loop"
    /\ fpc = "idle"
    /\ ClubsWithRows(request.table, i) # {}
    /\ i' = NextClub(request.table, i)
    /\ subset' = ClubSubset(request.table, CLUB_SLUG_TO_ID[i'].slug)
    /\ EnterFetch(CLUB_SLUG_TO_ID[i'].id)
    /\ pc' = "fetching"
    /\ UNCHANGED <<request, tm_players, k, matched_tm_names, matched_sheet_names,
                   results, pauses, response, last, visits>>
    /\ UNCHANGED cache

\* Lines 87-97: the call has ended.
AfterFetch ==
    /\ pc = "fetching"
    /\ fpc \in {"returned", "raised"}
    /\ LeaveFetch
    /\ IF fpc = "raised"
       THEN /\ response' = [status |-> 500, error |-> "JSONDecodeError", body |-> <<>>]
            /\ pc' = "done"
            /\ UNCHANGED <<i, tm_players, k, matched_tm_names, matched_sheet_names,
                           pauses, visits>>
       ELSE IF fresult = <<>>
       THEN /\ pc' = "loop"
            /\ i' = i + 1
            /\ tm_players' = fresult
            /\ visits' = Append(visits, [club |-> i, subset |-> subset,
                                         players |-> fresult])
            /\ UNCHANGED <<k, matched_tm_names, matched_sheet_names, pauses,
                           response>>
       ELSE IF FirstsRaise(fresult) \/ FirstsRaise(subset)
       THEN /\ response' = [status |-> 500, error |-> "IndexError", body |-> <<>>]
            /\ pc' = "done"
            /\ tm_players' = fresult
            /\ pauses' = Append(pauses, 10)
            /\ UNCHANGED <<i, k, matched_tm_names, matched_sheet_names, visits>>
       ELSE /\ pc' = "rows"
            /\ tm_players' = fresult
            /\ pauses' = Append(pauses, 10)
            /\ k' = 1
            /\ matched_tm_names' = {}
            /\ matched_sheet_names' = {}
            /\ visits' = Append(visits, [club |-> i, subset |-> subset,
                                         players |-> fresult])
            /\ UNCHANGED <<i, response>>
    /\ UNCHANGED <<request, subset, results, last>>
    /\ UNCHANGED cache

\* Lines 99-137: one row of the club.
ProcessRow ==
    /\ pc = "rows"
    /\ k <= Len(subset)
    /\ LET name == subset[k]
           slug == CLUB_SLUG_TO_ID[i].slug
           scores == Scores(name, tm_players, AllFirsts(tm_players), AllFirsts(subset))
           top == BestOf(SortByScoreDesc(scores))
           best == AcceptedBest(top.candidate, top.score)
           row == UserRow(name, slug, best, top.score)
       IN  /\ matched_tm_names' =
                 IF best # <<>> THEN matched_tm_names \cup {best} ELSE matched_tm_names
           /\ matched_sheet_names' =
                 IF best # <<>> THEN matched_sheet_names \cup {name}
                 ELSE matched_sheet_names
           /\ results' = Append(results, row)
           /\ last' = [set |-> TRUE, name |-> name, scores |-> scores,
                       best |-> top.candidate, score |-> top.score, row |-> row]
    /\ k' = k + 1
    /\ UNCHANGED <<request, pc, i, subset, tm_players, pauses, response, visits>>
    /\ UNCHANGED fetchVars

\* Lines 139-151: the unclaimed names of the club, then the pause.
EmitUnclaimed ==
    /\ pc = "rows"
    /\ k > Len(subset)
    /\ results' = results \o UnclaimedRows(tm_players, matched_tm_names,
                                           CLUB_SLUG_TO_ID[i].slug)
    /\ pauses' = IF i = PAUSE_AFTER THEN Append(pauses, 10 * PAUSE_SECONDS) ELSE pauses
    /\ i' = i + 1
    /\ pc' = "loop"
    /\ UNCHANGED <<request, subset, tm_players, k, matched_tm_names,
                   matched_sheet_names, response, last, visits>>
    /\ UNCHANGED fetchVars

\* Lines 153 and 170: no club with rows is left.
Finish ==
    /\ pc = "loop"
    /\ ClubsWithRows(request.table, i) = {}
    /\ response' = [status |-> 200, error |-> "", body |-> results]
    /\ pc' = "done"
    /\ i' = Len(CLUB_SLUG_TO_ID) + 1
    /\ UNCHANGED <<request, subset, tm_players, k, matched_tm_names,
                   matched_sheet_names, results, pauses, last, visits>>
    /\ UNCHANGED fetchVars

Requests ==
    {[file |-> FALSE, columns |-> FALSE, table |-> <<>>],
     [file |-> TRUE, columns |-> FALSE, table |-> <<>>]}
    \cup [file : {TRUE}, columns : {TRUE}, table : Tables]

Init ==
    /\ InitFetchVars
    /\ request \in Requests
    /\ pc = "start"
    /\ i = 0
    /\ subset = <<>>
    /\ tm_players = <<>>
    /\ k = 0
    /\ matched_tm_names = {}
    /\ matched_sheet_names = {}
    /\ results = <<>>
    /\ pauses = <<>>
    /\ response = NoResponse
    /\ last = NoLast
    /\ visits = <<>>

Next ==
    \/ Analyze
    \/ ClubStart
    \/ FetchCheck
    \/ FetchAttempt
    \/ FetchExhausted
    \/ AfterFetch
    \/ ProcessRow
    \/ EmitUnclaimed
    \/ Finish

Spec == Init /\ [][Next]_vars

(***************************************************************************)
(* Properties.                                                             *)
(***************************************************************************)
\* The rows of results that ProcessRow wrote for the club of index c.
UserRowsOf(c) ==
    SelectSeq(results, LAMBDA r : r.club = CLUB_SLUG_TO_ID[c].slug /\ r.valide # "new")

\* All the rows of results of the club of index c.
RowsOf(c) == SelectSeq(results, LAMBDA r : r.club = CLUB_SLUG_TO_ID[c].slug)

\* The number of rows of a sequence that report the provider name p.
Reports(rows, p) == Cardinality({n \in DOMAIN rows : rows[n].trouve = p})

\* The normalized first token of a name that has one.
FirstToken(name) == extract_first_name(name).value

\* C1: within one club, each provider name is the accepted best match of at
\* most one row of the table.
C1_NoDoubleClaim ==
    \A v \in DOMAIN visits :
        \A p \in {visits[v].players[n] : n \in DOMAIN visits[v].players} :
            Reports(UserRowsOf(visits[v].club), p) <= 1

\* C2: once a club is processed, each provider name of its list is reported
\* exactly once over the rows of the club, as a match or as a new player.
C2_EachExternalOnce ==
    \A v \in DOMAIN visits :
        (visits[v].club < i /\ visits[v].players # <<>>) =>
            \A p \in {visits[v].players[n] : n \in DOMAIN visits[v].players} :
                Reports(RowsOf(visits[v].club), p) = 1

\* C3: the row written for a name is a function of its best score s:
\* s >= 90 is a "match exact" with the check mark, 65 <= s < 90 a "match
\* partiel" with the warning sign, both reporting the best candidate and s;
\* s < 65 reports no name, no similarity, the cross and "non trouve"; the
\* reported name is non-empty exactly when s >= 65.
C3_Classification ==
    last.set =>
        /\ last.score \in 0..Pct(100)
        /\ \E n \in DOMAIN results : results[n] = last.row
        /\ last.row.nom = last.name
        /\ (last.row.trouve # <<>>) <=> (last.score >= Pct(65))
        /\ last.score >= Pct(90) =>
              /\ last.row.valide = "check"
              /\ last.row.type = "match exact"
              /\ last.row.trouve = last.best
              /\ last.row.similarite = <<last.score>>
        /\ (last.score >= Pct(65) /\ last.score < Pct(90)) =>
              /\ last.row.valide = "warning"
              /\ last.row.type = "match partiel"
              /\ last.row.trouve = last.best
              /\ last.row.similarite = <<last.score>>
        /\ last.score < Pct(65) =>
              /\ last.row.valide = "cross"
              /\ last.row.type = "non trouve transfermarkt (parti du club ?)"
              /\ last.row.trouve = <<>>
              /\ last.row.similarite = <<>>

\* A row whose best score is exactly 65: a partial match.
C3_Witness ==
    /\ last.set
    /\ last.score = Pct(65)
    /\ last.row.valide = "warning"
    /\ last.row.trouve = last.best

\* C4: the score of candidate j for the row just processed is
\* min(raw + 25, 100) when the first token of the candidate equals that of the
\* name, no other provider name has that first token and no other row of the
\* club has it; in every other case it is the raw similarity.
C4_Boost ==
    (pc = "rows" /\ k > 1) =>
        /\ last.name = subset[k - 1]
        /\ Len(last.scores) = Len(tm_players)
        /\ \A j \in DOMAIN tm_players :
              LET raw == RawScore(last.name, tm_players[j])
                  unique ==
                      /\ FirstToken(tm_players[j]) = FirstToken(last.name)
                      /\ \A m \in DOMAIN tm_players :
                            FirstToken(tm_players[m]) = FirstToken(last.name) => m = j
                      /\ \A m \in DOMAIN subset :
                            FirstToken(subset[m]) = FirstToken(last.name) => m = k - 1
              IN  /\ last.scores[j].candidate = tm_players[j]
                  /\ unique => last.scores[j].score = Min(raw + Pct(25), Pct(100))
                  /\ ~unique => last.scores[j].score = raw

\* A candidate whose score the boost raised by 25, beside another row and
\* another provider name.
C4_Witness ==
    /\ pc = "rows"
    /\ k > 1
    /\ Len(subset) > 1
    /\ Len(tm_players) > 1
    /\ \E j \in DOMAIN last.scores :
          last.scores[j].score = RawScore(last.name, tm_players[j]) + Pct(25)

\* C10: the best candidate of a row has the maximum score of the list, and of
\* the candidates that have it, it is the first in the order of the provider.
C10_FirstMaximum ==
    (pc = "rows" /\ k > 1) =>
        \E j \in DOMAIN last.scores :
            /\ last.best = last.scores[j].candidate
            /\ last.score = last.scores[j].score
            /\ \A m \in DOMAIN last.scores : last.scores[m].score <= last.score
            /\ \A m \in 1..(j - 1) : last.scores[m].score < last.score
            /\ last.score >= Pct(65) => last.row.trouve = tm_players[j]

\* Two different provider names share the top score and the row is a match.
C10_Witness ==
    /\ pc = "rows"
    /\ k > 1
    /\ last.score >= Pct(65)
    /\ \E j, m \in DOMAIN last.scores :
          /\ j < m
          /\ last.scores[j].score = last.score
          /\ last.scores[m].score = last.score
          /\ last.scores[j].candidate # last.scores[m].candidate
          /\ last.row.trouve = last.scores[j].candidate

\* C7: extract_first_name has a value for every name, so that the matching of
\* a club never ends the request with an exception.
C7_NeverRaises ==
    pc = "done" => ~(response.status = 500 /\ response.error = "IndexError")

\* What the fetch of the club of index c returned, << >> when it had no fetch.
Fetched(c) ==
    IF \E v \in DOMAIN visits : visits[v].club = c
    THEN visits[CHOOSE v \in DOMAIN visits : visits[v].club = c].players
    ELSE <<>>

\* A row of the report without its score: the club, the name it is about, its kind.
Project(row) ==
    IF row.valide = "new" THEN <<row.club, row.trouve, "new">>
    ELSE <<row.club, row.nom, "user">>

\* The rows the club of index c is to have in the report body: one per row of
\* the table, in the order of the table, then one per provider name that no
\* row of the club reports, in the order of the provider.
ExpectedOfClub(body, c) ==
    LET slug == CLUB_SLUG_TO_ID[c].slug
        names == ClubSubset(request.table, slug)
        claimed == {body[n].trouve : n \in {m \in DOMAIN body :
                        body[m].club = slug /\ body[m].valide # "new"}}
        free == SelectSeq(Fetched(c), LAMBDA p : p \notin claimed)
    IN  IF names = <<>> \/ Fetched(c) = <<>> THEN <<>>
        ELSE [n \in DOMAIN names |-> <<slug, names[n], "user">>]
             \o [n \in DOMAIN free |-> <<slug, free[n], "new">>]

RECURSIVE ExpectedFrom(_, _)
ExpectedFrom(body, c) ==
    IF c > Len(CLUB_SLUG_TO_ID) THEN <<>>
    ELSE ExpectedOfClub(body, c) \o ExpectedFrom(body, c + 1)

\* C9: the report is, club after club in the order of the catalog, the rows of
\* the club in the order of the table then its unclaimed provider names in the
\* order of the provider; a club without a row, or whose fetch returned
\* nothing, has no row in it, and every club that has rows was fetched.
C9_Report ==
    (pc = "done" /\ response.status = 200) =>
        /\ \A c \in ClubsWithRows(request.table, 1) :
              \E v \in DOMAIN visits : visits[v].club = c
        /\ [n \in DOMAIN response.body |-> Project(response.body[n])]
              = ExpectedFrom(response.body, 1)

\* A report of two clubs whose rows come in the other order in the table, one
\* of them with an unclaimed provider name.
C9_Witness ==
    /\ pc = "done"
    /\ response.status = 200
    /\ Len(request.table) = 2
    /\ request.table[1].slug = CLUB_SLUG_TO_ID[PAUSE_AFTER].slug
    /\ request.table[2].slug = CLUB_SLUG_TO_ID[1].slug
    /\ Len(response.body) >= 3
    /\ response.body[1].club = CLUB_SLUG_TO_ID[1].slug
    /\ \E n \in DOMAIN response.body : response.body[n].valide = "new"

\* The pauses of a call that has made n failed attempts.
PausesAfter(n) == [m \in 1..n |-> 15 + 10 * (m - 1)]

\* Whether the call found a file less than 24 hours old.
FoundFresh == entry.exists /\ entry.age < MAX_CACHE_AGE_HOURS

\* C5, as claimed: without a fresh cache the call makes at most 3 attempts,
\* returns at the first attempt that gets a 200 response, pauses 1.5 + attempt
\* seconds after each failed attempt, returns the empty list when all failed
\* and never raises.
C5_ReturnsAtFirst200 ==
    (fpc \in {"loop", "returned", "raised"} /\ ~FoundFresh) =>
        /\ requests <= MAX_RETRIES
        /\ fsleeps = PausesAfter(attempt)
        /\ fpc = "loop" => flog \in {"none", "no_response", "non200"}
        /\ (fpc = "returned" /\ flog # "200_returned") =>
              (attempt = MAX_RETRIES /\ fresult = <<>>)
        /\ fpc # "raised"

\* C5, amended: the call returns at the first attempt whose 200 response is
\* parsed and written to the cache without an exception; every other attempt
\* is a failed one, followed by its pause.
C5_RetryPolicy ==
    (fpc \in {"loop", "returned", "raised"} /\ ~FoundFresh) =>
        /\ requests <= MAX_RETRIES
        /\ fsleeps = PausesAfter(attempt)
        /\ fpc = "loop" => (requests = attempt /\ flog # "200_returned")
        /\ (fpc = "returned" /\ flog = "200_returned") =>
              /\ requests = attempt + 1
              /\ cache[fclub] = Written(fresult)
        /\ (fpc = "returned" /\ flog # "200_returned") =>
              /\ attempt = MAX_RETRIES
              /\ requests = MAX_RETRIES
              /\ fresult = <<>>
        /\ fpc # "raised"

\* The call returns a list at its third attempt, after pauses of 1.5 and 2.5 s.
C5_Witness ==
    /\ fpc = "returned"
    /\ ~FoundFresh
    /\ flog = "200_returned"
    /\ requests = MAX_RETRIES
    /\ fsleeps = <<15, 25>>
    /\ fresult # <<>>

\* C6: a fresh cache file that cannot be read does not fail the call.
C6_ReadFailureFallsThrough ==
    (fpc # "check" /\ FoundFresh /\ ~entry.valid) => fpc # "raised"

\* C8: a successful live fetch leaves the fetched list in the cache file of the
\* club; a call that finds that file less than 24 hours old returns its list
\* without a request; a call that finds no file, or one of 24 hours or more,
\* makes a request.
C8_Cache ==
    /\ (fpc = "returned" /\ flog = "200_returned") =>
          cache[fclub] = Written(fresult)
    /\ (fpc \in {"loop", "returned", "raised"} /\ FoundFresh /\ entry.valid) =>
          /\ fpc = "returned"
          /\ fresult = entry.data
          /\ requests = 0
          /\ cache[fclub] = entry
    /\ (fpc \in {"returned", "raised"} /\ ~FoundFresh) => requests >= 1
    /\ (fpc = "loop" /\ attempt > 0) => requests >= 1

\* A call that finds a list written 23 hours ago and returns it.
C8_Witness ==
    /\ fpc = "returned"
    /\ entry.exists
    /\ entry.valid
    /\ entry.age = MAX_CACHE_AGE_HOURS - 1
    /\ entry.data # <<>>
    /\ fresult = entry.data
    /\ requests = 0

=============================================================================
